---- MODULE Spec2Model ----
(***************************************************************************)
(* Model of meta-rest (src/src/lib.rs): the schema-driven validator, the   *)
(* in-memory storage engine with its filter evaluator, and the resource    *)
(* manager that composes them.                                             *)
(*                                                                         *)
(* Numbers.  serde_json numbers and the f64 bounds of a ValidationRule are *)
(* modelled by the integer count of halves they hold (h = 3 is 1.5), so    *)
(* that fractional and negative bounds exist and the cast `min as usize`   *)
(* is a real conversion.  Values beyond 2^53, where as_f64 rounds, are     *)
(* outside the model.                                                      *)
(* Strings.  A string is the sequence of its code points; its length in    *)
(* the sense of str::len is the number of bytes of its UTF-8 encoding.     *)
(***************************************************************************)
EXTENDS FiniteSets, Integers, Sequences, TLC

VARIABLES definition, resources, status, model, last

vars == <<definition, resources, status, model, last>>

(***************************************************************************)
(* Bounds of the model.                                                    *)
(***************************************************************************)
MaxIds == 2
MaxStrLen == 2
MaxFilters == 2
MaxNum == 3
MaxBound == 4

(***************************************************************************)
(* serde_json::Value                                                       *)
(***************************************************************************)
Null == [t |-> "null", k |-> "", h |-> 0, s |-> <<>>]
Bool(b) == [t |-> "boolean", k |-> "", h |-> IF b THEN 1 ELSE 0, s |-> <<>>]
\* k is the representation serde_json keeps: "int" (PosInt / NegInt) or
\* "float"; h counts halves.
Number(k, h) == [t |-> "number", k |-> k, h |-> h, s |-> <<>>]
String(s) == [t |-> "string", k |-> "", h |-> 0, s |-> s]
Array == [t |-> "array", k |-> "", h |-> 0, s |-> <<>>]
Object == [t |-> "object", k |-> "", h |-> 0, s |-> <<>>]

is_string(value) == value.t = "string"
is_number(value) == value.t = "number"
is_boolean(value) == value.t = "boolean"
is_array(value) == value.t = "array"
is_object(value) == value.t = "object"

\* Option<T>
None == [some |-> FALSE, v |-> 0]
Some(x) == [some |-> TRUE, v |-> x]
NoneStr == [some |-> FALSE, v |-> <<>>]

\* Value::as_f64: Some for every number (whatever its representation).
as_f64(value) == IF value.t = "number" THEN Some(value.h) ELSE None
\* Value::as_str
as_str(value) == IF value.t = "string" THEN Some(value.s) ELSE NoneStr

\* char::len_utf8
len_utf8(c) == IF c < 128 THEN 1 ELSE IF c < 2048 THEN 2 ELSE IF c < 65536 THEN 3 ELSE 4

\* str::len: the length in bytes.
RECURSIVE str_len(_)
str_len(s) == IF s = <<>> THEN 0 ELSE len_utf8(Head(s)) + str_len(Tail(s))

\* `x as usize` for an f64 holding h halves: truncation toward zero,
\* negative values saturate to 0.
as_usize(h) == IF h <= 0 THEN 0 ELSE h \div 2

\* str::contains(pat)
contains(s, pat) ==
    \E i \in 0..(Len(s) - Len(pat)) : SubSeq(s, i + 1, i + Len(pat)) = pat

(***************************************************************************)
(* Schema model                                                            *)
(***************************************************************************)
NoRule == [some |-> FALSE, min |-> None, max |-> None, pattern |-> NoneStr]
ValidationRule(min, max, pattern) ==
    [some |-> TRUE, min |-> min, max |-> max, pattern |-> pattern]

Field(name, field_type, required, validation) ==
    [name |-> name, field_type |-> field_type, required |-> required,
     validation |-> validation]

NoPolicy == [some |-> FALSE, require_auth |-> FALSE, allowed_roles |-> {}]
SecurityPolicy(require_auth, allowed_roles) ==
    [some |-> TRUE, require_auth |-> require_auth, allowed_roles |-> allowed_roles]

ResourceDefinition(name, fields, security) ==
    [name |-> name, fields |-> fields, security |-> security]

Resource(id, data) == [id |-> id, data |-> data]

Filter(field, operator, value) ==
    [field |-> field, operator |-> operator, value |-> value]

(***************************************************************************)
(* MetaRestError                                                           *)
(***************************************************************************)
Ok == [kind |-> "Ok", why |-> "", field |-> "", expected |-> "",
       actual |-> 0, bound |-> 0, id |-> ""]
\* The message of a ValidationError is kept as its parts: which check
\* failed (why), the field it names, and the expected type, actual value
\* and bound it prints.
ValidationError(why, field, expected, actual, bound) ==
    [kind |-> "ValidationError", why |-> why, field |-> field,
     expected |-> expected, actual |-> actual, bound |-> bound, id |-> ""]
NotFound(id) ==
    [kind |-> "NotFound", why |-> "", field |-> "", expected |-> "",
     actual |-> 0, bound |-> 0, id |-> id]
InvalidOperation(id) ==
    [kind |-> "InvalidOperation", why |-> "", field |-> "", expected |-> "",
     actual |-> 0, bound |-> 0, id |-> id]
\* The variant no operation of the in-memory engine constructs.
StorageError(id) ==
    [kind |-> "StorageError", why |-> "", field |-> "", expected |-> "",
     actual |-> 0, bound |-> 0, id |-> id]

(***************************************************************************)
(* ResourceManager::validate                                               *)
(***************************************************************************)
\* Mutant of valid_type: a tag the validator does not know rejects the value.
valid_type_strict(field, value) ==
    CASE field.field_type = "string" -> is_string(value)
      [] field.field_type = "number" -> is_number(value)
      [] field.field_type = "boolean" -> is_boolean(value)
      [] field.field_type = "array" -> is_array(value)
      [] field.field_type = "object" -> is_object(value)
      [] OTHER -> FALSE

\* The type check of one present value against the declared tag.
valid_type(field, value) ==
    CASE field.field_type = "string" -> is_string(value)
      [] field.field_type = "number" -> is_number(value)
      [] field.field_type = "boolean" -> is_boolean(value)
      [] field.field_type = "array" -> is_array(value)
      [] field.field_type = "object" -> is_object(value)
      [] OTHER -> TRUE

\* Mutant of check_min: the numeric minimum applies to every field that is
\* not declared a string.
check_min_untyped(field, value) ==
    LET rules == field.validation
        min == rules.min.v
    IN  IF ~rules.min.some THEN Ok
        ELSE IF field.field_type # "string"
        THEN IF as_f64(value).some /\ as_f64(value).v < min
             THEN ValidationError("value_min", field.name, "", as_f64(value).v, min)
             ELSE Ok
        ELSE IF as_str(value).some /\ str_len(as_str(value).v) < as_usize(min)
        THEN ValidationError("length_min", field.name, "", 0, min)
        ELSE Ok

\* The `if let Some(min) = rules.min` block: Ok when it returns nothing.
check_min(field, value) ==
    LET rules == field.validation
        min == rules.min.v
    IN  IF ~rules.min.some THEN Ok
        ELSE IF field.field_type = "number"
        THEN IF as_f64(value).some /\ as_f64(value).v < min
             THEN ValidationError("value_min", field.name, "", as_f64(value).v, min)
             ELSE Ok
        ELSE IF field.field_type = "string"
        THEN IF as_str(value).some /\ str_len(as_str(value).v) < as_usize(min)
             THEN ValidationError("length_min", field.name, "", 0, min)
             ELSE Ok
        ELSE Ok

\* Mutant of check_max: the maximum itself is rejected (>= for >).
check_max_exclusive(field, value) ==
    LET rules == field.validation
        max == rules.max.v
    IN  IF ~rules.max.some THEN Ok
        ELSE IF field.field_type = "number"
        THEN IF as_f64(value).some /\ as_f64(value).v >= max
             THEN ValidationError("value_max", field.name, "", as_f64(value).v, max)
             ELSE Ok
        ELSE IF field.field_type = "string"
        THEN IF as_str(value).some /\ str_len(as_str(value).v) >= as_usize(max)
             THEN ValidationError("length_max", field.name, "", 0, max)
             ELSE Ok
        ELSE Ok

\* The `if let Some(max) = rules.max` block.
check_max(field, value) ==
    LET rules == field.validation
        max == rules.max.v
    IN  IF ~rules.max.some THEN Ok
        ELSE IF field.field_type = "number"
        THEN IF as_f64(value).some /\ as_f64(value).v > max
             THEN ValidationError("value_max", field.name, "", as_f64(value).v, max)
             ELSE Ok
        ELSE IF field.field_type = "string"
        THEN IF as_str(value).some /\ str_len(as_str(value).v) > as_usize(max)
             THEN ValidationError("length_max", field.name, "", 0, max)
             ELSE Ok
        ELSE Ok

\* Mutant of validate_field: the required check is left out.
validate_field_no_required(field, resource) ==
    IF field.name \notin DOMAIN resource.data THEN Ok
    ELSE LET value == resource.data[field.name]
         IN  IF ~valid_type(field, value)
             THEN ValidationError("type", field.name, field.field_type, 0, 0)
             ELSE IF ~field.validation.some THEN Ok
             ELSE IF check_min(field, value).kind # "Ok" THEN check_min(field, value)
             ELSE check_max(field, value)

\* Mutant of validate_field: a string value that does not contain the
\* pattern of its rule is rejected.
validate_field_pattern(field, resource) ==
    IF field.required /\ field.name \notin DOMAIN resource.data
    THEN ValidationError("missing", field.name, "", 0, 0)
    ELSE IF field.name \notin DOMAIN resource.data THEN Ok
    ELSE LET value == resource.data[field.name]
         IN  IF ~valid_type(field, value)
             THEN ValidationError("type", field.name, field.field_type, 0, 0)
             ELSE IF ~field.validation.some THEN Ok
             ELSE IF /\ field.validation.pattern.some /\ as_str(value).some
                     /\ ~contains(as_str(value).v, field.validation.pattern.v)
             THEN ValidationError("type", field.name, "pattern", 0, 0)
             ELSE IF check_min(field, value).kind # "Ok" THEN check_min(field, value)
             ELSE check_max(field, value)

\* The body of the loop over the declared fields, for one field.
validate_field(field, resource) ==
    IF field.required /\ field.name \notin DOMAIN resource.data
    THEN ValidationError("missing", field.name, "", 0, 0)
    ELSE IF field.name \notin DOMAIN resource.data THEN Ok
    ELSE LET value == resource.data[field.name]
         IN  IF ~valid_type(field, value)
             THEN ValidationError("type", field.name, field.field_type, 0, 0)
             ELSE IF ~field.validation.some THEN Ok
             ELSE IF check_min(field, value).kind # "Ok" THEN check_min(field, value)
             ELSE check_max(field, value)

\* Mutant of validate_from: the loop runs to the end and the error of the
\* last failing field is returned.
RECURSIVE validate_from_last(_, _, _)
validate_from_last(fields, resource, i) ==
    IF i > Len(fields) THEN Ok
    ELSE IF validate_from_last(fields, resource, i + 1).kind # "Ok"
         THEN validate_from_last(fields, resource, i + 1)
         ELSE validate_field(fields[i], resource)

\* The loop from field i on: the first error ends it.
RECURSIVE validate_from(_, _, _)
validate_from(fields, resource, i) ==
    IF i > Len(fields) THEN Ok
    ELSE IF validate_field(fields[i], resource).kind # "Ok"
         THEN validate_field(fields[i], resource)
         ELSE validate_from(fields, resource, i + 1)

validate(def, resource) == validate_from(def.fields, resource, 1)

(***************************************************************************)
(* InMemoryStorage.  `res` is its HashMap, a function from the stored keys *)
(* to records.  Every operation yields the Result it returns (err, and     *)
(* value: the returned records as a sequence) and the map it leaves.       *)
(***************************************************************************)
Return(err, value, res) == [err |-> err, value |-> value, resources |-> res]

insert(res, key, resource) ==
    [k \in (DOMAIN res) \cup {key} |-> IF k = key THEN resource ELSE res[k]]

remove(res, key) == [k \in (DOMAIN res) \ {key} |-> res[k]]

\* The `match filter.operator.as_str()` expression, for the value the
\* record holds under the filter's field.
match_operator(operator, value, fvalue) ==
    CASE operator = "eq" -> value = fvalue
      [] operator = "ne" -> value # fvalue
      [] operator = "gt" ->
           IF as_f64(value).some /\ as_f64(fvalue).some
           THEN as_f64(value).v > as_f64(fvalue).v
           ELSE FALSE
      [] operator = "lt" ->
           IF as_f64(value).some /\ as_f64(fvalue).some
           THEN as_f64(value).v < as_f64(fvalue).v
           ELSE FALSE
      [] operator = "contains" ->
           IF as_str(value).some /\ as_str(fvalue).some
           THEN contains(as_str(value).v, as_str(fvalue).v)
           ELSE FALSE
      [] OTHER -> FALSE

\* Mutant of matches_filter: an operator it does not know is taken as eq.
matches_filter_default_eq(resource, filter) ==
    IF filter.field \in DOMAIN resource.data
    THEN IF filter.operator \in {"eq", "ne", "gt", "lt", "contains"}
         THEN match_operator(filter.operator, resource.data[filter.field], filter.value)
         ELSE resource.data[filter.field] = filter.value
    ELSE FALSE

\* Mutant of matches_filter: eq compares numbers by as_f64.
matches_filter_eq_coerced(resource, filter) ==
    IF filter.field \in DOMAIN resource.data
    THEN LET value == resource.data[filter.field]
         IN  IF filter.operator = "eq" /\ as_f64(value).some /\ as_f64(filter.value).some
             THEN as_f64(value).v = as_f64(filter.value).v
             ELSE match_operator(filter.operator, value, filter.value)
    ELSE FALSE

\* Mutant of matches_filter: gt and lt are not strict.
matches_filter_not_strict(resource, filter) ==
    IF filter.field \in DOMAIN resource.data
    THEN LET value == resource.data[filter.field]
         IN  IF /\ filter.operator \in {"gt", "lt"}
                /\ as_f64(value).some /\ as_f64(filter.value).some
                /\ as_f64(value).v = as_f64(filter.value).v
             THEN TRUE
             ELSE match_operator(filter.operator, value, filter.value)
    ELSE FALSE

\* Mutant of matches_filter: contains looks for the stored string in the
\* comparison string.
matches_filter_contains_swapped(resource, filter) ==
    IF filter.field \in DOMAIN resource.data
    THEN IF filter.operator = "contains"
         THEN match_operator("contains", filter.value, resource.data[filter.field])
         ELSE match_operator(filter.operator, resource.data[filter.field], filter.value)
    ELSE FALSE

\* Mutant of matches_filter: ne has no arm of its own and matches nothing.
matches_filter_no_ne(resource, filter) ==
    IF filter.field \in DOMAIN resource.data
    THEN IF filter.operator = "ne"
         THEN FALSE
         ELSE match_operator(filter.operator, resource.data[filter.field], filter.value)
    ELSE FALSE

\* Mutant of matches_filter: an absent field is read as null.
matches_filter_absent_null(resource, filter) ==
    IF filter.field \in DOMAIN resource.data
    THEN match_operator(filter.operator, resource.data[filter.field], filter.value)
    ELSE match_operator(filter.operator, Null, filter.value)

matches_filter(resource, filter) ==
    IF filter.field \in DOMAIN resource.data
    THEN match_operator(filter.operator, resource.data[filter.field], filter.value)
    ELSE FALSE

\* Mutant of all_match: any() for all().
all_match_any(resource, filters, i) ==
    \E n \in i..Len(filters) : matches_filter(resource, filters[n])

\* filters.iter().all(|filter| matches_filter(resource, filter)), from
\* filter i on.
RECURSIVE all_match(_, _, _)
all_match(resource, filters, i) ==
    IF i > Len(filters) THEN TRUE
    ELSE IF matches_filter(resource, filters[i])
         THEN all_match(resource, filters, i + 1)
         ELSE FALSE

\* Mutant of InMemoryStorage_create: Ok is returned and nothing is stored.
InMemoryStorage_create_lost(res, resource) ==
    IF resource.id \in DOMAIN res
    THEN Return(InvalidOperation(resource.id), <<>>, res)
    ELSE Return(Ok, <<resource>>, res)

\* Mutant of InMemoryStorage_create: no conflict check, insert overwrites.
InMemoryStorage_create_overwrite(res, resource) ==
    Return(Ok, <<resource>>, insert(res, resource.id, resource))

InMemoryStorage_create(res, resource) ==
    IF resource.id \in DOMAIN res
    THEN Return(InvalidOperation(resource.id), <<>>, res)
    ELSE Return(Ok, <<resource>>, insert(res, resource.id, resource))

\* Mutant of InMemoryStorage_get: an absent id yields an empty record.
InMemoryStorage_get_default(res, id) ==
    IF id \in DOMAIN res
    THEN Return(Ok, <<res[id]>>, res)
    ELSE Return(Ok, <<Resource(id, <<>>)>>, res)

InMemoryStorage_get(res, id) ==
    IF id \in DOMAIN res
    THEN Return(Ok, <<res[id]>>, res)
    ELSE Return(NotFound(id), <<>>, res)

\* HashMap::values() visits the entries in an order the map chooses:
\* `order` is that order, a sequence holding every key once.
Orders(res) ==
    {o \in [1..Cardinality(DOMAIN res) -> DOMAIN res] :
        \A i, j \in DOMAIN o : o[i] = o[j] => i = j}

values(res, order) == [i \in DOMAIN order |-> res[order[i]]]

InMemoryStorage_list(res, order) == Return(Ok, values(res, order), res)

\* Mutant of InMemoryStorage_update: the new data are merged into the old.
InMemoryStorage_update_merge(res, id, resource) ==
    IF id \notin DOMAIN res
    THEN Return(NotFound(id), <<>>, res)
    ELSE Return(Ok, <<resource>>,
                insert(res, id,
                       Resource(resource.id,
                                [n \in (DOMAIN resource.data) \cup (DOMAIN res[id].data) |->
                                    IF n \in DOMAIN resource.data
                                    THEN resource.data[n]
                                    ELSE res[id].data[n]])))

\* Mutant of InMemoryStorage_update: an absent id is inserted (upsert).
InMemoryStorage_update_upsert(res, id, resource) ==
    Return(Ok, <<resource>>, insert(res, id, resource))

\* Mutant of InMemoryStorage_update: the stored record is kept
\* (entry().or_insert() for insert()).
InMemoryStorage_update_keep_old(res, id, resource) ==
    IF id \notin DOMAIN res
    THEN Return(NotFound(id), <<>>, res)
    ELSE Return(Ok, <<resource>>, res)

InMemoryStorage_update(res, id, resource) ==
    IF id \notin DOMAIN res
    THEN Return(NotFound(id), <<>>, res)
    ELSE Return(Ok, <<resource>>, insert(res, id, resource))

\* Mutant of InMemoryStorage_delete: an absent id is reported as a
\* StorageError.
InMemoryStorage_delete_storage_error(res, id) ==
    IF id \in DOMAIN res
    THEN Return(Ok, <<>>, remove(res, id))
    ELSE Return(StorageError(id), <<>>, res)

\* Mutant of InMemoryStorage_delete: Ok is returned and the record stays.
InMemoryStorage_delete_keep(res, id) ==
    IF id \in DOMAIN res
    THEN Return(Ok, <<>>, res)
    ELSE Return(NotFound(id), <<>>, res)

InMemoryStorage_delete(res, id) ==
    IF id \in DOMAIN res
    THEN Return(Ok, <<>>, remove(res, id))
    ELSE Return(NotFound(id), <<>>, res)

InMemoryStorage_filter(res, order, filters) ==
    Return(Ok,
           SelectSeq(values(res, order), LAMBDA r : all_match(r, filters, 1)),
           res)

(***************************************************************************)
(* ResourceManager                                                         *)
(***************************************************************************)
\* Mutant of ResourceManager_create: the record is stored before it is
\* validated.
ResourceManager_create_store_first(def, res, resource) ==
    IF validate(def, resource).kind # "Ok"
    THEN Return(validate(def, resource), <<>>,
                InMemoryStorage_create(res, resource).resources)
    ELSE InMemoryStorage_create(res, resource)

ResourceManager_create(def, res, resource) ==
    IF validate(def, resource).kind # "Ok"
    THEN Return(validate(def, resource), <<>>, res)
    ELSE InMemoryStorage_create(res, resource)

ResourceManager_get(def, res, id) == InMemoryStorage_get(res, id)

ResourceManager_list(def, res, order) == InMemoryStorage_list(res, order)

ResourceManager_list_filtered(def, res, order, filters) ==
    InMemoryStorage_filter(res, order, filters)

\* Mutant of ResourceManager_update: the record is not validated.
ResourceManager_update_no_validate(def, res, id, resource) ==
    InMemoryStorage_update(res, id, resource)

\* Mutant of ResourceManager_update: storage is asked first, and its error
\* is returned before the record is validated.
ResourceManager_update_store_first(def, res, id, resource) ==
    IF InMemoryStorage_update(res, id, resource).err # Ok
    THEN InMemoryStorage_update(res, id, resource)
    ELSE IF validate(def, resource).kind # "Ok"
    THEN Return(validate(def, resource), <<>>, res)
    ELSE InMemoryStorage_update(res, id, resource)

ResourceManager_update(def, res, id, resource) ==
    IF validate(def, resource).kind # "Ok"
    THEN Return(validate(def, resource), <<>>, res)
    ELSE InMemoryStorage_update(res, id, resource)

ResourceManager_delete(def, res, id) == InMemoryStorage_delete(res, id)

(***************************************************************************)
(* Inputs of the manager's state machine.                                  *)
(***************************************************************************)
Ids == {ToString(i) : i \in 1..MaxIds}

\* The code points of the strings: 'a' (one byte in UTF-8) and U+00E9 (two).
Alphabet == <<97, 233>>
a == Alphabet[1]
e_acute == Alphabet[2]

\* create_test_definition of the tests, its bounds scaled to short
\* strings: name is a required string of length 2..3, age an optional
\* number in 0..3, email a required string without a rule.
TestDefinition ==
    ResourceDefinition("users",
        << Field("name", "string", TRUE,
                 ValidationRule(Some(4), Some(6), NoneStr)),
           Field("age", "number", FALSE,
                 ValidationRule(Some(0), Some(6), NoneStr)),
           Field("email", "string", TRUE, NoRule) >>,
        SecurityPolicy(TRUE, {"admin", "user"}))

\* The data of the records the callers pass: two that satisfy
\* TestDefinition (the second with the optional age), one that omits the
\* required email, and one that omits it and has a name of the wrong type.
TestData ==
    { [name |-> String(<<a, a>>), email |-> String(<<a>>)],
      [name |-> String(<<a, e_acute>>), age |-> Number("float", 2),
       email |-> String(<<a>>)],
      [name |-> String(<<a, a>>)],
      [name |-> Number("int", 14)] }

TestResources == {Resource(id, d) : id \in Ids, d \in TestData}

(***************************************************************************)
(* The manager as a state machine.  `resources` is the HashMap of the      *)
(* storage the manager owns.  `last` records the latest call: operation,   *)
(* arguments, the Result returned and the map before the call.  `status`   *)
(* is history: per id, whether the latest successful create or delete of   *)
(* that id was a create ("live"), a delete ("deleted"), or there was none. *)
(* `model` is history too: the map from id to record that the Ok results   *)
(* of create, update and delete describe.                                  *)
(***************************************************************************)
NoCall ==
    [op |-> "new", id |-> "", arg |-> <<>>, filters |-> <<>>,
     err |-> Ok, value |-> <<>>, before |-> <<>>]

Call(op, id, arg, filters, out) ==
    [op |-> op, id |-> id, arg |-> arg, filters |-> filters,
     err |-> out.err, value |-> out.value, before |-> resources]

Init ==
    /\ definition = TestDefinition
    /\ resources = <<>>
    /\ status = [id \in Ids |-> "never"]
    /\ model = <<>>
    /\ last = NoCall

Create(resource) ==
    LET out == ResourceManager_create(definition, resources, resource)
    IN  /\ resources' = out.resources
        /\ last' = Call("create", "", <<resource>>, <<>>, out)
        /\ status' = IF out.err = Ok
                     THEN [status EXCEPT ![resource.id] = "live"]
                     ELSE status
        /\ model' = IF out.err = Ok
                    THEN [k \in (DOMAIN model) \cup {resource.id} |->
                             IF k = resource.id THEN resource ELSE model[k]]
                    ELSE model
        /\ UNCHANGED definition

Get(id) ==
    LET out == ResourceManager_get(definition, resources, id)
    IN  /\ resources' = out.resources
        /\ last' = Call("get", id, <<>>, <<>>, out)
        /\ UNCHANGED <<definition, status, model>>

List(order) ==
    LET out == ResourceManager_list(definition, resources, order)
    IN  /\ resources' = out.resources
        /\ last' = Call("list", "", <<>>, <<>>, out)
        /\ UNCHANGED <<definition, status, model>>

Update(id, resource) ==
    LET out == ResourceManager_update(definition, resources, id, resource)
    IN  /\ resources' = out.resources
        /\ last' = Call("update", id, <<resource>>, <<>>, out)
        /\ model' = IF out.err = Ok
                    THEN [k \in (DOMAIN model) \cup {id} |->
                             IF k = id THEN resource ELSE model[k]]
                    ELSE model
        /\ UNCHANGED <<definition, status>>

Delete(id) ==
    LET out == ResourceManager_delete(definition, resources, id)
    IN  /\ resources' = out.resources
        /\ last' = Call("delete", id, <<>>, <<>>, out)
        /\ status' = IF out.err = Ok
                     THEN [status EXCEPT ![id] = "deleted"]
                     ELSE status
        /\ model' = IF out.err = Ok
                    THEN [k \in (DOMAIN model) \ {id} |-> model[k]]
                    ELSE model
        /\ UNCHANGED definition

Next ==
    \/ \E resource \in TestResources : Create(resource)
    \/ \E id \in Ids : Get(id)
    \/ \E order \in Orders(resources) : List(order)
    \/ \E id \in Ids, resource \in TestResources : Update(id, resource)
    \/ \E id \in Ids : Delete(id)

Spec == Init /\ [][Next]_vars

(***************************************************************************)
(* Claims about the manager's operations, checked under Spec.              *)
(***************************************************************************)
Stored(res, id) == id \in DOMAIN res

\* C1: for a schema-valid record r whose id is not stored, create(r)
\* succeeds and returns r, and a get(r.id) issued right after a successful
\* create(r) returns r, same id and same data.
C1_RoundTrip ==
    [][ /\ ( /\ last'.op = "create"
             /\ validate(definition, last'.arg[1]).kind = "Ok"
             /\ ~Stored(resources, last'.arg[1].id) )
           => ( last'.err = Ok /\ last'.value = last'.arg )
        /\ ( /\ last.op = "create" /\ last.err = Ok
             /\ last'.op = "get" /\ last'.id = last.arg[1].id )
           => ( /\ last'.err = Ok
                /\ last'.value = last.arg
                /\ last'.value[1].id = last.arg[1].id
                /\ last'.value[1].data = last.arg[1].data ) ]_vars

\* C1 witness: a get that found the record of a live id, the record being
\* one with the optional field.
C1_Witness ==
    /\ last.op = "get" /\ last.err = Ok
    /\ status[last.id] = "live"
    /\ last.value[1].id = last.id
    /\ "age" \in DOMAIN last.value[1].data

\* C2 as stated: once a create of an id has succeeded and the id was not
\* deleted since, every later create(r) with that id fails with
\* InvalidOperation, whatever the data of r.
C2_AlwaysInvalidOperation ==
    [][ ( last'.op = "create" /\ status[last'.arg[1].id] = "live" )
        => last'.err.kind = "InvalidOperation" ]_vars

\* C2 amended: such a create always fails; with InvalidOperation naming
\* the id when r satisfies the schema, and with the ValidationError of
\* validate when r violates it.
C2_Uniqueness ==
    [][ ( last'.op = "create" /\ status[last'.arg[1].id] = "live" )
        => /\ last'.err # Ok
           /\ resources' = resources
           /\ IF validate(definition, last'.arg[1]).kind = "Ok"
              THEN last'.err = InvalidOperation(last'.arg[1].id)
              ELSE /\ last'.err.kind = "ValidationError"
                   /\ last'.err = validate(definition, last'.arg[1]) ]_vars

\* C2 witness: a schema-valid create refused for an id that is live.
C2_Witness ==
    /\ last.op = "create"
    /\ last.err.kind = "InvalidOperation"
    /\ status[last.arg[1].id] = "live"
    /\ validate(definition, last.arg[1]).kind = "Ok"

\* C3: an operation that returns an error leaves the storage contents as
\* they were before the call.
C3_ErrorLeavesStorage ==
    last.err # Ok => resources = last.before

\* C3 witness: a conflicting create, refused while the id holds another
\* record, which is still the one stored.
C3_Witness ==
    /\ last.op = "create"
    /\ last.err.kind = "InvalidOperation"
    /\ resources[last.arg[1].id] # last.arg[1]
    /\ resources = last.before

\* C4: a successful update(id, r2) of a created id stores exactly r2 under
\* id, and a get(id) issued right after returns exactly r2: its data is
\* the mapping of r2, with no field of the replaced record added.
C4_Replace ==
    [][ /\ ( last'.op = "update" /\ last'.err = Ok )
           => ( /\ status[last'.id] = "live"
                /\ resources'[last'.id] = last'.arg[1]
                /\ last'.value = last'.arg )
        /\ ( /\ last.op = "update" /\ last.err = Ok
             /\ last'.op = "get" /\ last'.id = last.id )
           => ( /\ last'.err = Ok
                /\ last'.value = last.arg
                /\ DOMAIN last'.value[1].data = DOMAIN last.arg[1].data ) ]_vars

\* C4 witness: an update that replaced a record holding the optional age
\* by one without it.
C4_Witness ==
    /\ last.op = "update" /\ last.err = Ok
    /\ "age" \in DOMAIN last.before[last.id].data
    /\ "age" \notin DOMAIN last.arg[1].data
    /\ "age" \notin DOMAIN resources[last.id].data

Fields(def) == {def.fields[i] : i \in DOMAIN def.fields}

\* The required fields of the schema that the record omits.
Omitted(def, resource) ==
    {f \in Fields(def) : f.required /\ f.name \notin DOMAIN resource.data}

\* C5 as stated: a create or update of a record that omits a required
\* field f is rejected with a ValidationError naming f, whatever else is
\* right or wrong in the record.
C5_NamesEveryOmitted ==
    ( last.op \in {"create", "update"} )
    => \A f \in Omitted(definition, last.arg[1]) :
          last.err.kind = "ValidationError" /\ last.err.field = f.name

\* Field i of the schema is the first one the record violates.
FirstViolation(def, resource, i) ==
    /\ validate_field(def.fields[i], resource).kind # "Ok"
    /\ \A j \in 1..(i - 1) : validate_field(def.fields[j], resource).kind = "Ok"

\* C5 amended: such a record is rejected with a ValidationError by create
\* and update, and the storage is not touched; the message is the
\* missing-field message naming f when no field declared before f has a
\* violation.
C5_RequiredGate ==
    ( last.op \in {"create", "update"} )
    => \A i \in DOMAIN definition.fields :
          LET f == definition.fields[i]
          IN  ( f \in Omitted(definition, last.arg[1]) )
              => /\ last.err.kind = "ValidationError"
                 /\ resources = last.before
                 /\ FirstViolation(definition, last.arg[1], i)
                    => ( last.err.why = "missing" /\ last.err.field = f.name )

\* C5 witness: an update of a stored id refused because the record omits
\* the required email, its other fields being valid.
C5_Witness ==
    /\ last.op = "update"
    /\ Stored(resources, last.id)
    /\ last.err.kind = "ValidationError" /\ last.err.field = "email"
    /\ "name" \in DOMAIN last.arg[1].data

\* C6: delete(id) of a stored id succeeds and removes the record; a second
\* delete(id) right after fails with NotFound; and while the latest
\* successful create or delete of id is a delete, get(id) fails with
\* NotFound.
C6_DeleteBoundary ==
    /\ [] ( /\ ( last.op = "delete" /\ Stored(last.before, last.id) )
               => ( last.err = Ok /\ ~Stored(resources, last.id) )
            /\ ( last.op = "get" /\ status[last.id] = "deleted" )
               => last.err = NotFound(last.id) )
    /\ [][ ( /\ last.op = "delete" /\ last.err = Ok
             /\ last'.op = "delete" /\ last'.id = last.id )
           => last'.err = NotFound(last.id) ]_vars

\* C6 witness: a get that failed on an id deleted after its creation,
\* while another record is stored.
C6_Witness ==
    /\ last.op = "get" /\ last.err.kind = "NotFound"
    /\ status[last.id] = "deleted"
    /\ DOMAIN resources # {}

\* C11: get(id) of an id that is not stored (never created, or deleted
\* since its creation) fails with NotFound naming the id.
C11_GetAbsent ==
    ( last.op = "get" )
    => /\ ( ~Stored(last.before, last.id) )
          => ( last.err = NotFound(last.id) /\ last.value = <<>> )
       /\ ( status[last.id] \in {"never", "deleted"} )
          => last.err = NotFound(last.id)

\* C11 witness: a get of an id never created fails while another id is
\* stored.
C11_Witness ==
    /\ last.op = "get" /\ last.err.kind = "NotFound"
    /\ status[last.id] = "never"
    /\ DOMAIN resources # {}

\* C12 as stated: update(id, r) of an id that is not stored fails with
\* NotFound, for every record r.
C12_AlwaysNotFound ==
    ( last.op = "update" /\ ~Stored(last.before, last.id) )
    => last.err.kind = "NotFound"

\* C12 amended: such an update fails and stores nothing under id or any
\* other key; the error is NotFound naming id when r satisfies the schema
\* and the ValidationError of validate when r violates it.
C12_NoUpsert ==
    ( last.op = "update"
      /\ ( ~Stored(last.before, last.id) \/ status[last.id] # "live" ) )
    => /\ last.err # Ok
       /\ resources = last.before
       /\ ~Stored(resources, last.id)
       /\ IF validate(definition, last.arg[1]).kind = "Ok"
          THEN last.err = NotFound(last.id)
          ELSE /\ last.err.kind = "ValidationError"
               /\ last.err = validate(definition, last.arg[1])

\* C12 witness: an update of an id never created, with a schema-valid
\* record, fails with NotFound while another id is stored.
C12_Witness ==
    /\ last.op = "update" /\ last.err.kind = "NotFound"
    /\ status[last.id] = "never"
    /\ validate(definition, last.arg[1]).kind = "Ok"
    /\ DOMAIN resources # {}

\* seq holds the records of the map m, each once, in some order.
HoldsMap(seq, m) ==
    /\ Len(seq) = Cardinality(DOMAIN m)
    /\ \E o \in [DOMAIN seq -> DOMAIN m] :
          /\ \A i, j \in DOMAIN seq : o[i] = o[j] => i = j
          /\ \A i \in DOMAIN seq : seq[i] = m[o[i]]

\* C17: after any sequence of create, update and delete calls, get(id)
\* returns the record of the latest successful create or update of id when
\* no successful delete of id followed it and NotFound otherwise, and
\* list() returns the records of that map, each once (also when an update
\* passed a record whose id is not the target id).
C17_RefinesMap ==
    /\ ( last.op = "get" )
       => IF last.id \in DOMAIN model
          THEN last.err = Ok /\ last.value = <<model[last.id]>>
          ELSE last.err = NotFound(last.id) /\ last.value = <<>>
    /\ ( last.op = "list" )
       => ( last.err = Ok /\ HoldsMap(last.value, model) )

\* C17 witness: a list of the two different records of two live ids, one
\* of them holding the optional age.
C17_Witness ==
    /\ last.op = "list" /\ Len(last.value) = 2
    /\ last.value[1].data # last.value[2].data
    /\ last.value[1].id # last.value[2].id
    /\ \E id \in DOMAIN model :
          /\ model[id].id = id
          /\ "age" \in DOMAIN model[id].data
          /\ status[id] = "live"

\* C21: create and update validate before any storage call: a record that
\* violates the schema gets the ValidationError of validate whether or not
\* its id is stored, the store being left alone, and InvalidOperation and
\* NotFound are returned for schema-valid records only.
C21_ValidateFirst ==
    ( last.op \in {"create", "update"} )
    => LET v == validate(definition, last.arg[1])
       IN  /\ ( v.kind # "Ok" )
              => /\ last.err = v
                 /\ last.err.kind = "ValidationError"
                 /\ resources = last.before
           /\ ( last.err.kind \in {"InvalidOperation", "NotFound"} )
              => v.kind = "Ok"
           /\ ( last.op = "create" /\ last.err.kind = "InvalidOperation" )
              => Stored(last.before, last.arg[1].id)
           /\ ( last.op = "update" /\ last.err.kind = "NotFound" )
              => ~Stored(last.before, last.id)

\* C21 witness: an update with a schema-violating record for an id that is
\* not stored, while another id is, fails with ValidationError.
C21_Witness ==
    /\ last.op = "update"
    /\ last.err.kind = "ValidationError"
    /\ ~Stored(last.before, last.id)
    /\ DOMAIN last.before # {}

\* C26 as stated: in every state reachable from the empty store through
\* create, update and delete calls with arbitrary arguments each record is
\* stored under the key equal to its id, so get(k) returns a record of id
\* k and list returns no two records of the same id.
C26_KeyIdAgreement ==
    /\ \A k \in DOMAIN resources : resources[k].id = k
    /\ ( last.op = "get" /\ last.err = Ok ) => last.value[1].id = last.id
    /\ ( last.op = "list" )
       => \A i, j \in DOMAIN last.value :
             ( last.value[i].id = last.value[j].id ) => i = j

(***************************************************************************)
(* validate as a function of schema and record: SpecValidate draws a       *)
(* schema and applies validate to every record of ValidateResources.       *)
(***************************************************************************)
Strings == UNION {[1..n -> {a, e_acute}] : n \in 0..MaxStrLen}

\* Numbers of -MaxNum..MaxNum halves; the whole ones also as integers.
Numbers ==
    {Number("float", h) : h \in -MaxNum..MaxNum}
        \cup {Number("int", h) : h \in {x \in -MaxNum..MaxNum : x % 2 = 0}}

Values ==
    {String(s) : s \in Strings} \cup Numbers
        \cup {Null, Bool(TRUE), Bool(FALSE), Array, Object}

\* min and max of a rule: absent, or -0.5, 0, 0.5, ... up to MaxBound halves.
Bounds == {None} \cup {Some(h) : h \in -1..MaxBound}

Rules == {NoRule} \cup {ValidationRule(lo, hi, NoneStr) : lo, hi \in Bounds}

KnownTypes == {"string", "number", "boolean", "array", "object"}

\* The field under test: every tag (and one the validator does not know),
\* required or not, with every rule.
NameFields ==
    {Field("name", ty, req, rule) :
        ty \in KnownTypes \cup {"uuid"}, req \in BOOLEAN, rule \in Rules}

\* A second declared field, before or after the field under test.
AgeField == Field("age", "number", TRUE, NoRule)

ValidateDefinitions ==
    {ResourceDefinition("items", fields, NoPolicy) :
        fields \in UNION {{<<f>>, <<f, AgeField>>, <<AgeField, f>>} : f \in NameFields}}

Merge(d1, d2) ==
    [n \in (DOMAIN d1) \cup (DOMAIN d2) |-> IF n \in DOMAIN d1 THEN d1[n] ELSE d2[n]]

ValidateData ==
    {Merge(d1, d2) :
        d1 \in {<<>>} \cup {[name |-> v] : v \in Values},
        d2 \in {<<>>, [age |-> Number("int", 2)], [age |-> String(<<a>>)]}}

ValidateResources == {Resource("1", d) : d \in ValidateData}

InitValidate ==
    /\ definition \in ValidateDefinitions
    /\ resources = <<>>
    /\ status = [id \in Ids |-> "never"]
    /\ model = <<>>
    /\ last = NoCall

\* validate reads nothing but the schema and its argument, so one call per
\* behaviour covers every call.
Validate(resource) ==
    /\ last.op = "new"
    /\ last' = [NoCall EXCEPT !.op = "validate", !.arg = <<resource>>,
                              !.err = validate(definition, resource)]
    /\ UNCHANGED <<definition, resources, status, model>>

NextValidate == \E resource \in ValidateResources : Validate(resource)

SpecValidate == InitValidate /\ [][NextValidate]_vars

\* Every declared field but field i passes its checks.
OthersPass(def, resource, i) ==
    \A j \in (DOMAIN def.fields) \ {i} :
        validate_field(def.fields[j], resource).kind = "Ok"

\* C7: for a number field with rule min = lo, max = hi and a numeric value
\* v (the other fields being valid), validate fails exactly when v < lo or
\* v > hi, with a ValidationError naming the field, v and the violated
\* bound; lo, hi and the values between are accepted.
C7_NumericBound ==
    ( last.op = "validate" )
    => \A i \in DOMAIN definition.fields :
          LET f == definition.fields[i]
              r == last.arg[1]
          IN  ( /\ f.field_type = "number"
                /\ f.validation.some
                /\ f.validation.min.some /\ f.validation.max.some
                /\ f.name \in DOMAIN r.data
                /\ r.data[f.name].t = "number"
                /\ OthersPass(definition, r, i) )
              => LET v == r.data[f.name].h
                     lo == f.validation.min.v
                     hi == f.validation.max.v
                 IN  /\ ( last.err.kind = "ValidationError" ) <=> ( v < lo \/ v > hi )
                     /\ ( lo <= v /\ v <= hi ) => last.err = Ok
                     /\ ( v < lo )
                        => last.err = ValidationError("value_min", f.name, "", v, lo)
                     /\ ( v >= lo /\ v > hi )
                        => last.err = ValidationError("value_max", f.name, "", v, hi)

\* C7 witness: a value equal to the maximum of its field, above the
\* minimum, accepted.
C7_Witness ==
    /\ last.op = "validate" /\ last.err = Ok
    /\ \E i \in DOMAIN definition.fields :
          LET f == definition.fields[i]
          IN  /\ f.field_type = "number" /\ f.validation.some
              /\ f.validation.min.some /\ f.validation.max.some
              /\ f.validation.min.v < f.validation.max.v
              /\ f.name \in DOMAIN last.arg[1].data
              /\ last.arg[1].data[f.name].t = "number"
              /\ last.arg[1].data[f.name].h = f.validation.max.v

\* C8 as stated, for whole bounds lo, hi >= 0 as in its example: for a
\* string field with rule min = lo, max = hi and a string value of n
\* characters (the other fields being valid), validate fails exactly when
\* n < lo or n > hi.
C8_CharacterBound ==
    ( last.op = "validate" )
    => \A i \in DOMAIN definition.fields :
          LET f == definition.fields[i]
              r == last.arg[1]
          IN  ( /\ f.field_type = "string"
                /\ f.validation.some
                /\ f.validation.min.some /\ f.validation.max.some
                /\ f.validation.min.v >= 0 /\ f.validation.min.v % 2 = 0
                /\ f.validation.max.v >= 0 /\ f.validation.max.v % 2 = 0
                /\ f.name \in DOMAIN r.data
                /\ r.data[f.name].t = "string"
                /\ OthersPass(definition, r, i) )
              => LET n == Len(r.data[f.name].s)
                     lo == f.validation.min.v \div 2
                     hi == f.validation.max.v \div 2
                 IN  ( last.err.kind = "ValidationError" ) <=> ( n < lo \/ n > hi )

FilterData ==
    { [name |-> String(<<a, a>>), age |-> Number("float", 4), email |-> String(<<a>>)],
      [name |-> String(<<a, e_acute>>), age |-> Number("float", 2),
       email |-> String(<<a>>)],
      [name |-> String(<<e_acute, a>>), age |-> Number("int", 4),
       email |-> String(<<a>>)],
      [name |-> String(<<a, a>>), email |-> String(<<a>>)] }

FilterResources == {Resource(id, d) : id \in Ids, d \in FilterData}

FilterPool ==
    { Filter("name", "contains", String(<<e_acute>>)),
      Filter("age", "gt", Number("float", 2)),
      Filter("name", "eq", String(<<a, a>>)),
      Filter("age", "ne", Number("float", 4)),
      Filter("age", "like", Number("float", 4)) }

FilterLists == UNION {[1..n -> FilterPool] : n \in 0..MaxFilters}

Queried == last.op \in {"list", "list_filtered"}

ListFiltered(order, filters) ==
    LET out == ResourceManager_list_filtered(definition, resources, order, filters)
    IN  /\ resources' = out.resources
        /\ last' = Call("list_filtered", "", <<>>, filters, out)
        /\ UNCHANGED <<definition, status, model>>

NextFilter ==
    \/ ~Queried /\ \E resource \in FilterResources : Create(resource)
    \/ ~Queried /\ \E id \in Ids : Delete(id)
    \/ ~Queried /\ \E order \in Orders(resources) : List(order)
    \/ ~Queried /\ \E order \in Orders(resources), filters \in FilterLists :
                      ListFiltered(order, filters)

SpecFilter == Init /\ [][NextFilter]_vars

\* The keys of the stored records that every predicate of the list matches.
MatchingKeys(res, filters) ==
    {k \in DOMAIN res :
        \A n \in DOMAIN filters : matches_filter(res[k], filters[n])}

\* seq holds the records stored under `keys`, each stored record once.
HoldsEach(seq, res, keys) ==
    /\ Len(seq) = Cardinality(keys)
    /\ \E o \in [DOMAIN seq -> keys] :
          /\ \A i, j \in DOMAIN seq : o[i] = o[j] => i = j
          /\ \A i \in DOMAIN seq : seq[i] = res[o[i]]

\* C9: list_filtered never fails and returns the stored records that every
\* predicate matches, each once, and no other; with no predicate it
\* returns what list() returns.
C9_FilterConjunction ==
    ( last.op = "list_filtered" )
    => /\ last.err = Ok
       /\ resources = last.before
       /\ HoldsEach(last.value, resources, MatchingKeys(resources, last.filters))
       /\ ( last.filters = <<>> )
          => \E order \in Orders(resources) :
                last.value = ResourceManager_list(definition, resources, order).value

\* C9 witness: a query with two predicates that returns a record and
\* leaves out one that matches the first predicate and fails the second.
C9_Witness ==
    /\ last.op = "list_filtered"
    /\ Len(last.filters) = 2
    /\ Len(last.value) >= 1
    /\ \E k \in DOMAIN resources :
          /\ matches_filter(resources[k], last.filters[1])
          /\ ~matches_filter(resources[k], last.filters[2])
          /\ \A i \in DOMAIN last.value : last.value[i] # resources[k]

\* The violations a record has against one declared field, each decided
\* on its own: "missing", "type", "min", "max".
Violations(f, r) ==
    LET present == f.name \in DOMAIN r.data
        v == r.data[f.name]
        number == f.field_type = "number" /\ v.t = "number"
        string == f.field_type = "string" /\ v.t = "string"
    IN  {w \in {"missing"} : f.required /\ ~present}
        \cup {w \in {"type"} : present /\ f.field_type \in KnownTypes /\ v.t # f.field_type}
        \cup {w \in {"min"} :
                /\ present /\ f.validation.some /\ f.validation.min.some
                /\ \/ number /\ v.h < f.validation.min.v
                   \/ string /\ str_len(v.s) < as_usize(f.validation.min.v)}
        \cup {w \in {"max"} :
                /\ present /\ f.validation.some /\ f.validation.max.some
                /\ \/ number /\ v.h > f.validation.max.v
                   \/ string /\ str_len(v.s) > as_usize(f.validation.max.v)}

\* The order of the checks within one field.
CheckOrder == << "missing", "type", "min", "max" >>

\* The check an error comes from.
CheckOf(err) ==
    CASE err.why \in {"value_min", "length_min"} -> "min"
      [] err.why \in {"value_max", "length_max"} -> "max"
      [] OTHER -> err.why

\* C20: validate returns Ok when no declared field has a violation, and
\* otherwise exactly one error: that of the first declared field with a
\* violation, and of that field's first violated check in the order
\* missing, type, min, max, whatever later fields and checks would report.
C20_ValidationOrder ==
    ( last.op = "validate" )
    => LET fields == definition.fields
           r == last.arg[1]
           bad == {i \in DOMAIN fields : Violations(fields[i], r) # {}}
       IN  IF bad = {} THEN last.err = Ok
           ELSE LET i == CHOOSE x \in bad : \A y \in bad : x <= y
                    k == CHOOSE x \in 1..4 :
                            /\ CheckOrder[x] \in Violations(fields[i], r)
                            /\ \A y \in 1..(x - 1) :
                                  CheckOrder[y] \notin Violations(fields[i], r)
                IN  /\ last.err.kind = "ValidationError"
                    /\ last.err.field = fields[i].name
                    /\ CheckOf(last.err) = CheckOrder[k]
                    /\ last.err = validate_field(fields[i], r)

\* C20 witness: both declared fields have a violation, the second one a
\* missing value and the first one a value below min and above max; the
\* error is the first field's min error.
C20_Witness ==
    /\ last.op = "validate"
    /\ Len(definition.fields) = 2
    /\ Violations(definition.fields[1], last.arg[1]) = {"min", "max"}
    /\ Violations(definition.fields[2], last.arg[1]) = {"missing"}
    /\ last.err.kind = "ValidationError"
    /\ last.err.field = definition.fields[1].name
    /\ CheckOf(last.err) = "min"

\* A bound of a rule is absent or a whole number >= 0 (counted in halves).
WholeBound(b) == b.some => ( b.v >= 0 /\ b.v % 2 = 0 )

\* C22 as stated: for a string field with a min/max rule (whole bounds)
\* and a string value of n characters, the other fields being valid,
\* validate accepts the record exactly when min <= n <= max, each bound
\* counting when present, whatever the number of bytes of the characters.
C22_CharacterCount ==
    ( last.op = "validate" )
    => \A i \in DOMAIN definition.fields :
          LET f == definition.fields[i]
              r == last.arg[1]
          IN  ( /\ f.field_type = "string"
                /\ f.validation.some
                /\ f.validation.min.some \/ f.validation.max.some
                /\ WholeBound(f.validation.min) /\ WholeBound(f.validation.max)
                /\ f.name \in DOMAIN r.data
                /\ r.data[f.name].t = "string"
                /\ OthersPass(definition, r, i) )
              => LET n == Len(r.data[f.name].s)
                 IN  ( last.err = Ok )
                     <=> /\ f.validation.min.some => f.validation.min.v <= 2 * n
                         /\ f.validation.max.some => 2 * n <= f.validation.max.v

\* The schema def with the rule of its field i removed.
WithoutRule(def, i) == [def EXCEPT !.fields[i].validation = NoRule]

\* C23: a rule on a field whose declared type is neither number nor
\* string has no effect: for every record validate returns what it
\* returns for the schema with that rule removed.
C23_RuleIgnored ==
    ( last.op = "validate" )
    => \A i \in DOMAIN definition.fields :
          ( /\ definition.fields[i].field_type \notin {"number", "string"}
            /\ definition.fields[i].validation.some )
          => last.err = validate(WithoutRule(definition, i), last.arg[1])

\* C23 witness: a field of an unknown tag with min above max holds a
\* number below min, next to a second field that is valid, and validate
\* accepts the record.
C23_Witness ==
    /\ last.op = "validate" /\ last.err = Ok
    /\ Len(definition.fields) = 2
    /\ \E i \in DOMAIN definition.fields :
          LET f == definition.fields[i]
          IN  /\ f.field_type \notin KnownTypes
              /\ f.validation.some
              /\ f.validation.min.some /\ f.validation.max.some
              /\ f.validation.min.v > f.validation.max.v
              /\ f.name \in DOMAIN last.arg[1].data
              /\ last.arg[1].data[f.name].t = "number"
              /\ last.arg[1].data[f.name].h < f.validation.min.v

(***************************************************************************)
(* One predicate against one record: SpecMatch stores one record of any    *)
(* content under id "1" (the schema constrains nothing) and queries it     *)
(* with one predicate, so the result holds the record exactly when         *)
(* matches_filter, which is private to the storage, is true of the pair.   *)
(***************************************************************************)
\* A schema whose one field is optional and of a tag the validator does
\* not know: every record satisfies it.
OpenDefinition ==
    ResourceDefinition("things", << Field("name", "any", FALSE, NoRule) >>, NoPolicy)

MatchResources ==
    {Resource("1", d) : d \in {<<>>} \cup {[name |-> v] : v \in Values}}

KnownOperators == {"eq", "ne", "gt", "lt", "contains"}

\* The operators of the predicates: the five known ones, and strings that
\* are none of them.
Operators == KnownOperators \cup {"like", "EQ", ""}

\* "name" is the field the records may hold, "missing" one they never hold.
MatchFilters ==
    {Filter(field, operator, v) :
        field \in {"name", "missing"}, operator \in Operators, v \in Values}

InitMatch ==
    /\ definition = OpenDefinition
    /\ resources = <<>>
    /\ status = [id \in Ids |-> "never"]
    /\ model = <<>>
    /\ last = NoCall

NextMatch ==
    \/ ~Queried /\ \E resource \in MatchResources : Create(resource)
    \/ ~Queried /\ \E order \in Orders(resources), filter \in MatchFilters :
                      ListFiltered(order, <<filter>>)

SpecMatch == InitMatch /\ [][NextMatch]_vars

\* The latest call is a query with the one predicate of operator op.
QueryWith(ops) ==
    /\ last.op = "list_filtered"
    /\ Len(last.filters) = 1
    /\ last.filters[1].operator \in ops

\* The queried store holds a record with the predicate's field.
HasField ==
    /\ Stored(resources, "1")
    /\ last.filters[1].field \in DOMAIN resources["1"].data

\* The value the stored record holds under the predicate's field.
StoredValue == resources["1"].data[last.filters[1].field]

\* The query returned the stored record (the predicate matched it).
Matched == last.value = <<resources["1"]>>

\* The query returned nothing.
Unmatched == last.value = <<>>

\* C13: a predicate whose operator is none of eq, ne, gt, lt, contains
\* matches no record: the query returns Ok and an empty result, whatever
\* is stored.
C13_UnknownOperator ==
    QueryWith(Operators \ KnownOperators)
    => ( last.err = Ok /\ Unmatched /\ resources = last.before )

\* C13 witness: a query with an unknown operator returns nothing although
\* the stored value equals the comparison value.
C13_Witness ==
    /\ QueryWith({"EQ"}) /\ HasField
    /\ StoredValue = last.filters[1].value
    /\ Unmatched

\* The dynamic values x and y have the same type and the same content: for
\* numbers the same representation (integer or float) and the same value.
SameValue(x, y) ==
    /\ x.t = y.t
    /\ x.t = "string" => x.s = y.s
    /\ x.t = "boolean" => x.h = y.h
    /\ x.t = "number" => ( x.k = y.k /\ x.h = y.h )

\* C14: for a record that has the predicate's field, eq matches exactly
\* when the stored value and the comparison value have the same type and
\* content; values of different types never match.
C14_Eq ==
    ( QueryWith({"eq"}) /\ HasField )
    => /\ last.err = Ok
       /\ Matched <=> SameValue(StoredValue, last.filters[1].value)
       /\ ~Matched => Unmatched
       /\ ( StoredValue.t # last.filters[1].value.t ) => Unmatched

\* C14 witness: an eq query matched a stored number, comparison value and
\* stored value being the same float.
C14_Witness ==
    /\ QueryWith({"eq"}) /\ HasField
    /\ StoredValue.t = "number" /\ StoredValue.k = "float"
    /\ Matched

\* C15: gt (lt) matches exactly when stored value and comparison value
\* are both numbers and the stored one is strictly greater (less); in
\* every other case the query returns Ok without the record.
C15_GtLt ==
    ( QueryWith({"gt", "lt"}) /\ HasField )
    => LET x == StoredValue
           y == last.filters[1].value
           numbers == x.t = "number" /\ y.t = "number"
       IN  /\ last.err = Ok
           /\ ~Matched => Unmatched
           /\ QueryWith({"gt"}) => ( Matched <=> ( numbers /\ x.h > y.h ) )
           /\ QueryWith({"lt"}) => ( Matched <=> ( numbers /\ x.h < y.h ) )

\* C15 witness: a gt query matched a stored integer against a float.
C15_Witness ==
    /\ QueryWith({"gt"}) /\ HasField
    /\ StoredValue.t = "number" /\ StoredValue.k = "int"
    /\ last.filters[1].value.k = "float"
    /\ Matched

\* pat occurs in s as a run of consecutive characters.
Substring(pat, s) ==
    \E pre, post \in 0..Len(s) :
        /\ pre + Len(pat) + post = Len(s)
        /\ \A i \in 1..Len(pat) : s[pre + i] = pat[i]

\* C16: contains matches exactly when stored value and comparison value
\* are both strings and the comparison string occurs in the stored one as
\* a contiguous substring; in every other case the query returns Ok
\* without the record.
C16_Contains ==
    ( QueryWith({"contains"}) /\ HasField )
    => LET x == StoredValue
           y == last.filters[1].value
       IN  /\ last.err = Ok
           /\ ~Matched => Unmatched
           /\ Matched <=> ( x.t = "string" /\ y.t = "string" /\ Substring(y.s, x.s) )

\* C16 witness: a contains query matched a stored string longer than the
\* comparison string, which is its ending and not its beginning.
C16_Witness ==
    /\ QueryWith({"contains"}) /\ HasField /\ Matched
    /\ Len(last.filters[1].value.s) >= 1
    /\ Len(StoredValue.s) > Len(last.filters[1].value.s)
    /\ StoredValue.s[1] # last.filters[1].value.s[1]

\* The result of the eq query with the field and comparison value of the
\* latest query, on the same store.
EqResult ==
    ResourceManager_list_filtered(definition, resources, <<"1">>,
        <<Filter(last.filters[1].field, "eq", last.filters[1].value)>>).value

\* C18 as stated: for every stored record, field name and comparison
\* value, (field, ne, value) matches the record exactly when (field, eq,
\* value) does not.
C18_NeNegatesEqEverywhere ==
    ( QueryWith({"ne"}) /\ Stored(resources, "1") )
    => ( Matched <=> EqResult = <<>> )

\* C18 amended: for every stored record that has the field, (field, ne,
\* value) matches exactly when (field, eq, value) does not; for a record
\* without the field neither matches.
C18_NeNegatesEq ==
    ( QueryWith({"ne"}) /\ Stored(resources, "1") )
    => /\ last.err = Ok
       /\ HasField => ( Matched <=> EqResult = <<>> )
       /\ ~HasField => ( Unmatched /\ EqResult = <<>> )

\* C18 witness: a ne query matched a stored integer against the float of
\* the same value.
C18_Witness ==
    /\ QueryWith({"ne"}) /\ HasField /\ Matched
    /\ StoredValue.t = "number" /\ last.filters[1].value.t = "number"
    /\ StoredValue.h = last.filters[1].value.h

\* C19: a predicate whose field is absent from the record's data does not
\* match the record, for every operator and every comparison value.
C19_AbsentField ==
    ( QueryWith(Operators) /\ Stored(resources, "1") /\ ~HasField )
    => ( last.err = Ok /\ Unmatched )

\* C19 witness: a ne query with comparison value null on a record without
\* the field returns nothing.
C19_Witness ==
    /\ QueryWith({"ne"}) /\ Stored(resources, "1") /\ ~HasField
    /\ last.filters[1].value = Null
    /\ DOMAIN resources["1"].data # {}
    /\ Unmatched

(***************************************************************************)
(* The six operations of the manager together: SpecManager adds           *)
(* list_filtered, with one predicate of FilterPool, to the calls of Spec,  *)
(* and ends a behaviour at its first read.                                 *)
(***************************************************************************)
\* A pattern no name of TestData satisfies: "éé".
TestPattern == Some(<<e_acute, e_acute>>)

\* The fields of TestDefinition with `pattern` as the pattern of every
\* rule.
PatternFields(pattern) ==
    [i \in DOMAIN TestDefinition.fields |->
        LET f == TestDefinition.fields[i]
        IN  IF f.validation.some
            THEN [f EXCEPT !.validation.pattern = pattern]
            ELSE f]

\* Schemas that differ from TestDefinition in security policy and
\* patterns only.
PolicyDefinitions ==
    { TestDefinition,
      ResourceDefinition("users", PatternFields(TestPattern), NoPolicy),
      ResourceDefinition("users", PatternFields(TestPattern),
                         SecurityPolicy(TRUE, {})) }

\* get, list and list_filtered take &self and leave the store alone: the
\* stores they meet are those the mutating calls alone reach.
Read == last.op \in {"get", "list", "list_filtered"}

NextManager ==
    \/ ~Read /\ \E resource \in TestResources : Create(resource)
    \/ ~Read /\ \E id \in Ids : Get(id)
    \/ ~Read /\ \E order \in Orders(resources) : List(order)
    \/ ~Read /\ \E order \in Orders(resources), filter \in FilterPool :
                   ListFiltered(order, <<filter>>)
    \/ ~Read /\ \E id \in Ids, resource \in TestResources : Update(id, resource)
    \/ ~Read /\ \E id \in Ids : Delete(id)

SpecManager == Init /\ [][NextManager]_vars

\* C24: with the in-memory engine create fails only with ValidationError
\* or InvalidOperation, update only with ValidationError or NotFound, get
\* and delete only with NotFound, list and list_filtered never, and no
\* operation returns StorageError.
C24_ErrorKinds ==
    /\ last.err.kind \in {"Ok", "ValidationError", "InvalidOperation", "NotFound"}
    /\ ( last.op = "create" )
       => last.err.kind \in {"Ok", "ValidationError", "InvalidOperation"}
    /\ ( last.op = "update" )
       => last.err.kind \in {"Ok", "ValidationError", "NotFound"}
    /\ ( last.op \in {"get", "delete"} ) => last.err.kind \in {"Ok", "NotFound"}
    /\ ( last.op \in {"list", "list_filtered"} ) => last.err = Ok

\* C24 witness: a delete of an id that is not stored, other records being
\* stored, failed with NotFound.
C24_Witness ==
    /\ last.op = "delete"
    /\ last.err = NotFound(last.id)
    /\ DOMAIN resources # {}

\* What the latest call can return, and the store it leaves, when it is
\* made on the store it found by a manager of schema def; list and
\* list_filtered return the records in the order the map visits them.
Replays(def) ==
    CASE last.op = "create" ->
            {ResourceManager_create(def, last.before, last.arg[1])}
      [] last.op = "get" ->
            {ResourceManager_get(def, last.before, last.id)}
      [] last.op = "list" ->
            {ResourceManager_list(def, last.before, order) :
                order \in Orders(last.before)}
      [] last.op = "list_filtered" ->
            {ResourceManager_list_filtered(def, last.before, order, last.filters) :
                order \in Orders(last.before)}
      [] last.op = "update" ->
            {ResourceManager_update(def, last.before, last.id, last.arg[1])}
      [] last.op = "delete" ->
            {ResourceManager_delete(def, last.before, last.id)}
      [] OTHER -> {}

\* C25: security policy and patterns are never consulted: what a call
\* returns and the store it leaves are what a manager whose schema differs
\* in security policy and patterns only returns and leaves for the same
\* call on the same store; so two such managers, started from equal
\* stores and given the same calls, agree at every step.
C25_PolicyBlind ==
    ( last.op # "new" )
    => \A def \in PolicyDefinitions :
          Return(last.err, last.value, resources) \in Replays(def)

\* C25 witness: under a policy that requires authentication a create has
\* stored a record whose name does not satisfy the pattern another schema
\* of PolicyDefinitions gives the field.
C25_Witness ==
    /\ last.op = "create" /\ last.err = Ok
    /\ definition.security.some /\ definition.security.require_auth
    /\ \E def \in PolicyDefinitions :
          /\ ~def.security.some
          /\ def.fields[1].validation.pattern.some
          /\ ~contains(last.arg[1].data[def.fields[1].name].s,
                       def.fields[1].validation.pattern.v)

\* C27: every record held in storage passes validate against the
\* manager's schema, and so does every record get, list or list_filtered
\* returns.
C27_StoredValid ==
    /\ \A k \in DOMAIN resources : validate(definition, resources[k]) = Ok
    /\ ( last.op \in {"get", "list", "list_filtered"} )
       => \A i \in DOMAIN last.value : validate(definition, last.value[i]) = Ok

\* C27 witness: an update of a stored id with a schema-violating record
\* was refused, and the record stored under that id is the valid one.
C27_Witness ==
    /\ last.op = "update"
    /\ last.err.kind = "ValidationError"
    /\ Stored(resources, last.id)
    /\ validate(definition, last.arg[1]).kind # "Ok"
    /\ resources[last.id] # last.arg[1]

====
